---- MODULE Spec2Model ----
(***************************************************************************)
(* State-machine model of src/net.rs: the NetLayer session (send, recv,    *)
(* interpolate, predict, reconcile), its ack tracker, snapshot buffer,     *)
(* interpolator and prediction queue.                                      *)
(*                                                                         *)
(* Conventions.  Option<T> is a sequence: << >> is None, <<v>> is Some(v). *)
(* A u32 bitfield is the set of its set bit positions (0..31), since a     *)
(* model integer cannot hold bit 31.  An f32 is a record: a finite value   *)
(* m * 2^(-e) in canonical form (m odd, or m = 0 and e = 0), an infinity   *)
(* or NaN; every arithmetic operation rounds to 24 significant bits, ties  *)
(* to even, as IEEE-754 binary32 does (the exponent range is not modelled: *)
(* the finite values of the model stay far inside it).                     *)
(***************************************************************************)
EXTENDS Integers, Sequences, FiniteSets, TLC

VARIABLES
    seq, ack, ack_bits, snapshots, cmd_queue, last_snap,  \* NetLayer fields
    tick,             \* NetLayer field: the local tick, advanced by the driving loop
    overflow_checks,  \* build profile: TRUE = overflow checks on (debug)
    panicked,         \* the thread has panicked inside an operation
    op, arg, ret,     \* last completed operation, its numeric argument, its result
    sent,             \* Option: the last Packet built by send
    sends,            \* history: number of calls to send
    delivered,        \* history: sequence numbers of the packets recv processed
    last_seq,         \* history: Option, seq of the packet recv processed last
    pre_ack,          \* history: <<ack, ack_bits>> before that packet
    arrived,          \* history: every snapshot recv ingested, in arrival order
    pruned            \* history: entries removed by the last reconcile

fields == <<seq, ack, ack_bits, snapshots, cmd_queue, last_snap, tick>>
env == <<overflow_checks, panicked>>
call == <<op, arg, ret>>
hist == <<sent, sends, delivered, last_seq, pre_ack, arrived, pruned>>
vars == <<fields, env, call, hist>>

---------------------------------------------------------------------------
(* Program constants *)

WindowBits == 32
SnapCap == 64
RecvBuf == 4096
InterpDelay == 3

(* Bounds of the model *)

MaxSends == 6
MaxQueue == 4
SeqSpan == 1
MaxBuf == 4
MaxArrivals == 70
Side == 1
MaxEntities == 127
MaxTicks == 3

None == << >>
Some(v) == <<v>>

---------------------------------------------------------------------------
(* f32 arithmetic *)

Abs(n) == IF n < 0 THEN -n ELSE n
Sgn(n) == IF n < 0 THEN -1 ELSE IF n > 0 THEN 1 ELSE 0

RECURSIVE Pow2(_)
Pow2(n) == IF n <= 0 THEN 1 ELSE 2 * Pow2(n - 1)

RECURSIVE BitLen(_)
BitLen(n) == IF n = 0 THEN 0 ELSE 1 + BitLen(n \div 2)

RECURSIVE GCD(_, _)
GCD(a, b) == IF b = 0 THEN a ELSE GCD(b, a % b)

NaN == [k |-> "nan", m |-> 0, e |-> 0]
Inf(sgn) == [k |-> "inf", m |-> sgn, e |-> 0]

RECURSIVE Norm(_, _)
Norm(m, e) ==
    IF m = 0 THEN [k |-> "fin", m |-> 0, e |-> 0]
    ELSE IF m % 2 = 0 THEN Norm(m \div 2, e - 1)
    ELSE [k |-> "fin", m |-> m, e |-> e]

\* the f32 nearest to m * 2^(-e): 24 significant bits, ties to even
Round(m, e) ==
    LET a == Abs(m)
        r == BitLen(a) - 24
    IN  IF r <= 0 THEN Norm(m, e)
        ELSE LET q == a \div Pow2(r)
                 rem == a % Pow2(r)
                 half == Pow2(r - 1)
                 up == rem > half \/ (rem = half /\ q % 2 = 1)
             IN  Norm(Sgn(m) * (IF up THEN q + 1 ELSE q), e - r)

\* `n as f32` for a u32 n
FromU32(n) == Round(n, 0)

IsFin(x) == x.k = "fin"
IsZero(x) == x.k = "fin" /\ x.m = 0

FNeg(x) == IF x.k = "nan" THEN NaN ELSE [x EXCEPT !.m = -x.m]

FAdd(x, y) ==
    IF x.k = "nan" \/ y.k = "nan" THEN NaN
    ELSE IF x.k = "inf" /\ y.k = "inf" THEN (IF x.m = y.m THEN x ELSE NaN)
    ELSE IF x.k = "inf" THEN x
    ELSE IF y.k = "inf" THEN y
    ELSE LET e == IF x.e > y.e THEN x.e ELSE y.e
         IN  Round(x.m * Pow2(e - x.e) + y.m * Pow2(e - y.e), e)

FSub(x, y) == FAdd(x, FNeg(y))

FMul(x, y) ==
    IF x.k = "nan" \/ y.k = "nan" THEN NaN
    ELSE IF x.k = "inf" \/ y.k = "inf"
         THEN (IF IsZero(x) \/ IsZero(y) THEN NaN ELSE Inf(Sgn(x.m) * Sgn(y.m)))
    ELSE Round(x.m * y.m, x.e + y.e)

\* <<n * 2^k, k>> for the least k >= 0 with n * 2^k >= lim
RECURSIVE QuotShift(_, _, _)
QuotShift(n, lim, k) ==
    IF n >= lim THEN <<n, k>> ELSE QuotShift(2 * n, lim, k + 1)

\* the f32 nearest to n / d, for integers 0 < n < d * 2^24, d > 0
RoundQuot(n, d) ==
    LET sk == QuotShift(n, d * 8388608, 0)
        q == sk[1] \div d
        rem == sk[1] % d
        up == 2 * rem > d \/ (2 * rem = d /\ q % 2 = 1)
    IN  Norm(IF up THEN q + 1 ELSE q, sk[2])

\* x / y for finite x, y (the operands interpolate divides are u32 conversions)
FDiv(x, y) ==
    IF IsZero(y) THEN (IF IsZero(x) THEN NaN ELSE Inf(Sgn(x.m)))
    ELSE IF IsZero(x) THEN x
    ELSE LET q == RoundQuot(Abs(x.m), Abs(y.m))
         IN  Norm(Sgn(x.m) * Sgn(y.m) * q.m, q.e + x.e - y.e)

---------------------------------------------------------------------------
(* Ack tracker: recv, the two branches on pkt.seq *)

\* b << d on a 32-bit field: bits moved past position 31 are lost
Shl(b, d) == {k + d : k \in {j \in b : j + d < WindowBits}}

\* `x << d` with d >= 32 panics when overflow checks are on; without them the
\* shift amount is taken modulo 32
ShiftPanics(d, checked) == checked /\ d >= WindowBits
ShiftAmount(d) == d % WindowBits

\* mutant: ack follows the packet processed last instead of the highest
AckUpdateLastSeen(a, b, s, checked) ==
    IF s > a
    THEN IF ShiftPanics(s - a, checked)
         THEN [panic |-> TRUE, ack |-> a, ack_bits |-> b]
         ELSE [panic |-> FALSE, ack |-> s,
               ack_bits |-> Shl(b, ShiftAmount(s - a)) \cup {0}]
    ELSE IF s < a
    THEN IF ShiftPanics(a - s, checked)
         THEN [panic |-> TRUE, ack |-> a, ack_bits |-> b]
         ELSE [panic |-> FALSE, ack |-> s,
               ack_bits |-> b \cup Shl({0}, ShiftAmount(a - s))]
    ELSE [panic |-> FALSE, ack |-> a, ack_bits |-> b]

\* mutant: an older packet flips its bit (^=) instead of setting it (|=)
AckUpdateToggle(a, b, s, checked) ==
    IF s > a
    THEN IF ShiftPanics(s - a, checked)
         THEN [panic |-> TRUE, ack |-> a, ack_bits |-> b]
         ELSE [panic |-> FALSE, ack |-> s,
               ack_bits |-> Shl(b, ShiftAmount(s - a)) \cup {0}]
    ELSE IF s < a
    THEN IF ShiftPanics(a - s, checked)
         THEN [panic |-> TRUE, ack |-> a, ack_bits |-> b]
         ELSE LET bit == Shl({0}, ShiftAmount(a - s))
              IN  [panic |-> FALSE, ack |-> a,
                   ack_bits |-> (b \ bit) \cup (bit \ b)]
    ELSE [panic |-> FALSE, ack |-> a, ack_bits |-> b]

AckUpdate(a, b, s, checked) ==
    IF s > a
    THEN IF ShiftPanics(s - a, checked)
         THEN [panic |-> TRUE, ack |-> a, ack_bits |-> b]
         ELSE [panic |-> FALSE, ack |-> s,
               ack_bits |-> Shl(b, ShiftAmount(s - a)) \cup {0}]
    ELSE IF s < a
    THEN IF ShiftPanics(a - s, checked)
         THEN [panic |-> TRUE, ack |-> a, ack_bits |-> b]
         ELSE [panic |-> FALSE, ack |-> a,
               ack_bits |-> b \cup Shl({0}, ShiftAmount(a - s))]
    ELSE [panic |-> FALSE, ack |-> a, ack_bits |-> b]

---------------------------------------------------------------------------
(* Snapshot buffer: push_back, then pop_front above 64 *)

\* mutant: evicts once the length reaches 64 (>= for >)
PushSnapAtCap(buf, s) ==
    LET b == Append(buf, s)
    IN  IF Len(b) >= SnapCap THEN Tail(b) ELSE b

PushSnap(buf, s) ==
    LET b == Append(buf, s)
    IN  IF Len(b) > SnapCap THEN Tail(b) ELSE b

Ingest(buf, snap) == IF snap = None THEN buf ELSE PushSnap(buf, snap[1])

---------------------------------------------------------------------------
(* Interpolator *)

\* mutant: closed interval (<= for <)
BracketsClosed(s0, s1, t) == s0.tick <= t /\ t <= s1.tick

Brackets(s0, s1, t) == s0.tick <= t /\ t < s1.tick

\* s.windows(2).find(..): index of the first bracketing window, 0 if none
RECURSIVE FindWindow(_, _, _)
FindWindow(buf, t, i) ==
    IF i + 1 > Len(buf) THEN 0
    ELSE IF Brackets(buf[i], buf[i + 1], t) THEN i
    ELSE FindWindow(buf, t, i + 1)

\* mutant: the quotient taken in u32 before the conversion
FractionTruncated(s0, s1, t) ==
    FromU32((t - s0.tick) \div (s1.tick - s0.tick))

Fraction(s0, s1, t) == FDiv(FromU32(t - s0.tick), FromU32(s1.tick - s0.tick))

Lerp(p0, p1, a) == FAdd(p0, FMul(a, FSub(p1, p0)))

\* mutant: id and orientation taken from S1's entity
LerpEntityOfS1(e0, e1, a) ==
    [id |-> e1.id,
     pos |-> <<Lerp(e0.pos[1], e1.pos[1], a),
               Lerp(e0.pos[2], e1.pos[2], a),
               Lerp(e0.pos[3], e1.pos[3], a)>>,
     rot |-> e1.rot]

LerpEntity(e0, e1, a) ==
    [id |-> e0.id,
     pos |-> <<Lerp(e0.pos[1], e1.pos[1], a),
               Lerp(e0.pos[2], e1.pos[2], a),
               Lerp(e0.pos[3], e1.pos[3], a)>>,
     rot |-> e0.rot]

Min(a, b) == IF a < b THEN a ELSE b

\* iter().zip(..).map(..).collect()
ZipLerp(es0, es1, a) ==
    [i \in 1..Min(Len(es0), Len(es1)) |-> LerpEntity(es0[i], es1[i], a)]

Interp(buf, t) ==
    LET i == FindWindow(buf, t, 1)
    IN  IF i = 0 THEN None
        ELSE Some(ZipLerp(buf[i].entities, buf[i + 1].entities,
                          Fraction(buf[i], buf[i + 1], t)))

---------------------------------------------------------------------------
(* Prediction queue and reconciliation *)

\* cmd_queue.retain(|c| c.0 > ack_id)
\* mutant: keeps the entry tagged ack_id itself (>= for >)
KeepsFrom(c, ack_id) == c[1] >= ack_id

Keeps(c, ack_id) == c[1] > ack_id

RECURSIVE Retain(_, _)
Retain(q, ack_id) ==
    IF q = << >> THEN << >>
    ELSE IF Keeps(Head(q), ack_id) THEN <<Head(q)>> \o Retain(Tail(q), ack_id)
    ELSE Retain(Tail(q), ack_id)

---------------------------------------------------------------------------
(* Wire: what the socket hands to recv *)

\* cmds.iter().map(|(id, i)| (*id, *i, 0)).collect()
WireCmds(cmds) == [i \in 1..Len(cmds) |-> <<cmds[i][1], cmds[i][2], 0>>]

MkPacket(s, a, b, cmds, snap) ==
    [seq |-> s, ack |-> a, ack_bits |-> b, cmds |-> cmds, snap |-> snap]

\* length in bytes of bincode::serialize(&pkt): fixed-width integers and
\* floats, an 8-byte length before each Vec, a 1-byte tag before the Option
EncodedLen(p) ==
    12 + (8 + 13 * Len(p.cmds))
       + (IF p.snap = None THEN 1
          ELSE 1 + 4 + 8 + 32 * Len(p.snap[1].entities))

\* a datagram is either the serialization of a packet or bytes that are none
Bytes(p) == [valid |-> TRUE, len |-> EncodedLen(p), pkt |-> Some(p)]
Junk == [valid |-> FALSE, len |-> 1, pkt |-> None]

\* sock.recv(&mut buf) with buf: [u8; 4096], then &buf[..n]: a datagram longer
\* than the buffer loses its tail (or the read fails, on platforms that
\* report the excess as an error); what is left of a serialization cut short
\* is not a serialization
Truncate(bytes) ==
    IF bytes.len > RecvBuf
    THEN [valid |-> FALSE, len |-> RecvBuf, pkt |-> None]
    ELSE bytes

\* bincode::deserialize(..).ok()
Deserialize(bytes) == IF bytes.valid THEN bytes.pkt ELSE None

\* sock.recv(..).ok().and_then(deserialize): r is None when the read fails
Decoded(r) == IF r = None THEN None ELSE Deserialize(Truncate(r[1]))

---------------------------------------------------------------------------
(* NetLayer::new *)

Init ==
    /\ seq = 0 /\ ack = 0 /\ ack_bits = {}
    /\ snapshots = << >> /\ cmd_queue = << >> /\ last_snap = None /\ tick = 0
    /\ overflow_checks \in BOOLEAN
    /\ panicked = FALSE
    /\ op = "new" /\ arg = 0 /\ ret = None
    /\ sent = None /\ sends = 0
    /\ delivered = {} /\ last_seq = None /\ pre_ack = <<0, {}>>
    /\ arrived = << >> /\ pruned = 0

---------------------------------------------------------------------------
(* NetLayer::send *)

\* self.seq += 1, whatever send_to returned (its result is dropped by .ok())
\* mutant: the counter moves only when the datagram was sent
NextSeqIfSent(s, ok) == IF ok THEN s + 1 ELSE s

NextSeq(s, ok) == s + 1

\* mutant: the counter is incremented before the packet is built
SendAfterIncrement(ok, cmds, snap) ==
    /\ ~panicked
    /\ sent' = Some(MkPacket(NextSeq(seq, ok), ack, ack_bits,
                             WireCmds(cmds), snap))
    /\ seq' = NextSeq(seq, ok)
    /\ sends' = sends + 1
    /\ op' = "send" /\ arg' = (IF ok THEN 1 ELSE 0) /\ ret' = None
    /\ UNCHANGED <<ack, ack_bits, snapshots, cmd_queue, last_snap, tick>>
    /\ UNCHANGED <<env, delivered, last_seq, pre_ack, arrived, pruned>>

Send(ok, cmds, snap) ==
    /\ ~panicked
    /\ sent' = Some(MkPacket(seq, ack, ack_bits, WireCmds(cmds), snap))
    /\ seq' = NextSeq(seq, ok)
    /\ sends' = sends + 1
    /\ op' = "send" /\ arg' = (IF ok THEN 1 ELSE 0) /\ ret' = None
    /\ UNCHANGED <<ack, ack_bits, snapshots, cmd_queue, last_snap, tick>>
    /\ UNCHANGED <<env, delivered, last_seq, pre_ack, arrived, pruned>>

---------------------------------------------------------------------------
(* NetLayer::recv *)

\* the closure of .map(|pkt| ..): ack tracker, then snapshot ingestion
RecvPacket(pkt) ==
    LET u == AckUpdate(ack, ack_bits, pkt.seq, overflow_checks)
    IN  IF u.panic
        THEN /\ panicked' = TRUE
             /\ op' = "recv" /\ arg' = pkt.seq /\ ret' = None
             /\ UNCHANGED <<fields, overflow_checks, hist>>
        ELSE /\ ack' = u.ack
             /\ ack_bits' = u.ack_bits
             /\ snapshots' = Ingest(snapshots, pkt.snap)
             /\ op' = "recv" /\ arg' = pkt.seq /\ ret' = Some(pkt)
             /\ delivered' = delivered \cup {pkt.seq}
             /\ last_seq' = Some(pkt.seq)
             /\ pre_ack' = <<ack, ack_bits>>
             /\ arrived' = (IF pkt.snap = None THEN arrived
                            ELSE Append(arrived, pkt.snap[1]))
             /\ UNCHANGED <<seq, cmd_queue, last_snap, tick>>
             /\ UNCHANGED <<env, sent, sends, pruned>>

\* mutant: a failed decode falls back to a default packet (unwrap_or_default)
RecvDefault ==
    /\ ack_bits' = (IF ack > 0 /\ ack < WindowBits THEN ack_bits \cup {ack}
                    ELSE ack_bits)
    /\ op' = "recv" /\ arg' = 0 /\ ret' = None
    /\ UNCHANGED <<seq, ack, snapshots, cmd_queue, last_snap, tick, env, hist>>

\* no datagram, a failed read or undecodable bytes: None, the closure never runs
RecvNothing ==
    /\ op' = "recv" /\ arg' = 0 /\ ret' = None
    /\ UNCHANGED <<fields, env, hist>>

Recv(r) ==
    /\ ~panicked
    /\ IF Decoded(r) = None THEN RecvNothing ELSE RecvPacket(Decoded(r)[1])

---------------------------------------------------------------------------
(* NetLayer::interpolate, predict, reconcile *)

Interpolate(t) ==
    /\ ~panicked
    /\ op' = "interpolate" /\ arg' = t /\ ret' = Interp(snapshots, t)
    /\ UNCHANGED <<fields, env, hist>>

\* mutant: the entry is inserted at the front (insert(0, ..) for push)
PredictFront(input) ==
    /\ ~panicked
    /\ cmd_queue' = <<<<seq, input>>>> \o cmd_queue
    /\ op' = "predict" /\ arg' = input /\ ret' = None
    /\ UNCHANGED <<seq, ack, ack_bits, snapshots, last_snap, tick, env, hist>>

\* mutant: the entry is tagged with the counter's value after the next send
PredictTagNext(input) ==
    /\ ~panicked
    /\ cmd_queue' = Append(cmd_queue, <<seq + 1, input>>)
    /\ op' = "predict" /\ arg' = input /\ ret' = None
    /\ UNCHANGED <<seq, ack, ack_bits, snapshots, last_snap, tick, env, hist>>

Predict(input) ==
    /\ ~panicked
    /\ cmd_queue' = Append(cmd_queue, <<seq, input>>)
    /\ op' = "predict" /\ arg' = input /\ ret' = None
    /\ UNCHANGED <<seq, ack, ack_bits, snapshots, last_snap, tick, env, hist>>

Reconcile(ack_id, state) ==
    /\ ~panicked
    /\ cmd_queue' = Retain(cmd_queue, ack_id)
    /\ last_snap' = Some(state)
    /\ pruned' = Len(cmd_queue) - Len(Retain(cmd_queue, ack_id))
    /\ op' = "reconcile" /\ arg' = ack_id /\ ret' = None
    /\ UNCHANGED <<seq, ack, ack_bits, snapshots, tick, env>>
    /\ UNCHANGED <<sent, sends, delivered, last_seq, pre_ack, arrived>>

---------------------------------------------------------------------------
(* Inputs *)

F(n) == FromU32(n)
RotA == <<F(0), F(0), F(0), F(1)>>
RotB == <<F(1), F(0), F(0), F(0)>>
Ent(id, pos, rot) == [id |-> id, pos |-> pos, rot |-> rot]
Snap(tk, ents) == [tick |-> tk, entities |-> ents]

SnapA == Snap(10, <<Ent(1, <<F(0), F(0), F(0)>>, RotA)>>)
SnapB == Snap(20, <<Ent(1, <<F(10), F(0), F(0)>>, RotB)>>)
SnapC == Snap(14, <<Ent(2, <<F(4), F(8), Inf(1)>>, RotB),
                    Ent(3, <<F(1), F(2), F(3)>>, RotA)>>)

NoData == None
Garbage == Some(Junk)
Datagram(s, a, snap) == Some(Bytes(MkPacket(s, a, {}, << >>, snap)))

---------------------------------------------------------------------------
(* SpecAck: the ack tracker under loss, reordering, duplicates and jumps    *)
(* across the 32-slot window; the other operations run beside it.           *)

SeqVals == (0..SeqSpan) \cup {WindowBits + k : k \in 0..SeqSpan}

AckInputs ==
    {NoData, Garbage, Datagram(1, 0, Some(SnapA))}
        \cup {Datagram(s, 0, None) : s \in SeqVals}

CarriesSnap(r) == Decoded(r) # None /\ Decoded(r)[1].snap # None

AckRecv ==
    \E r \in AckInputs :
        /\ CarriesSnap(r) => Len(arrived) < Side
        /\ Recv(r)
\* operations beside a specification's focus: at most Side sends and predicts
SideBudget == sends + Len(cmd_queue) < Side

AckSend == SideBudget /\ \E ok \in BOOLEAN : Send(ok, << >>, None)
AckPredict == SideBudget /\ Predict(1)
AckReconcile == Reconcile(0, SnapA)
AckInterpolate == Interpolate(10)

NextAck == AckRecv \/ AckSend \/ AckPredict \/ AckReconcile \/ AckInterpolate

SpecAck == Init /\ [][NextAck]_vars

MaxOf(S) == IF S = {} THEN 0 ELSE CHOOSE x \in S : \A y \in S : y <= x

\* C2: ack is the highest sequence number recv has processed (0 before the
\* first), and no step of any operation lowers it.
C2_AckIsHighestSeen == [](ack = MaxOf(delivered)) /\ [][ack' >= ack]_vars

\* C2 witness: a packet older than ack was processed last, after three or more
\* different sequence numbers.
C2_Witness ==
    /\ last_seq # None /\ last_seq[1] < ack
    /\ Cardinality(delivered) >= 3

\* C3: every processed sequence number within 31 of ack has its bit set
\* (bit ack - s, bit 0 for ack itself).
C3_EveryRecentSeen ==
    \A s \in delivered : ack - s < WindowBits => (ack - s) \in ack_bits

\* C3, first sequence number set aside: the property holds of every processed
\* sequence number other than 0.
C3_EveryRecentSeenButZero ==
    \A s \in delivered \ {0} : ack - s < WindowBits => (ack - s) \in ack_bits

\* C4: a set bit k in 1..31 means sequence number ack - k was processed.
C4_BitsSound ==
    \A k \in 1..(WindowBits - 1) : k \in ack_bits => (ack - k) \in delivered

\* C5: processing a packet whose seq equals that of the packet processed just
\* before leaves ack and ack_bits as they were; so does a packet with
\* seq = ack.
C5_DuplicateIdempotent ==
    [][(op' = "recv" /\ ret' # None
          /\ (last_seq = Some(ret'[1].seq) \/ ret'[1].seq = ack))
       => (ack' = ack /\ ack_bits' = ack_bits)]_vars

\* C5 witness: with overflow checks on (every set bit then stands for a
\* processed packet), the packet processed last found its bit already set, so
\* it repeated an earlier one, and the tracker is as it was before it.
C5_Witness ==
    /\ overflow_checks
    /\ op = "recv" /\ last_seq # None
    /\ last_seq[1] < ack /\ ack - last_seq[1] < WindowBits
    /\ pre_ack = <<ack, ack_bits>>

\* C10: a recv that finds no datagram (or whose read fails), or whose bytes do
\* not decode, returns None and changes no field of the session.
C10_EmptyRecvNoOp ==
    [][\A r \in {NoData, Garbage} :
          Recv(r) => (ret' = None /\ UNCHANGED fields)]_vars

\* C10 witness: such a recv has returned in a session whose tracker, buffer,
\* baseline and counter or queue are no longer in their initial state.
C10_Witness ==
    /\ op = "recv" /\ ret = None /\ ~panicked
    /\ ack > 0 /\ ack_bits # {} /\ snapshots # << >> /\ last_snap # None
    /\ (seq > 0 \/ cmd_queue # << >>)

\* C11: recv of a decodable packet completes normally whatever its seq: no
\* receive path aborts (no shift out of range, no arithmetic overflow).
C11_RecvNeverPanics == ~panicked

\* the snapshot buffer after a packet's snapshot (if any) was appended at the
\* back, the oldest entry dropped above capacity
Appended(buf, snap) ==
    IF snap = None THEN buf
    ELSE IF Len(buf) < SnapCap THEN buf \o <<snap[1]>>
    ELSE SubSeq(buf, 2, Len(buf)) \o <<snap[1]>>

\* C16: a packet with seq s > ack leaves ack_bits as the old bits shifted left
\* by s - ack within 32 bits, bit 0 set; with s - ack >= 32 that is exactly
\* bit 0 alone, and the call returns normally.
C16_WindowAging ==
    [][\A r \in AckInputs :
          (Recv(r) /\ Decoded(r) # None /\ Decoded(r)[1].seq > ack) =>
              /\ ~panicked'
              /\ ack_bits' = {k + (Decoded(r)[1].seq - ack) :
                                k \in {j \in ack_bits :
                                         j + (Decoded(r)[1].seq - ack) < 32}}
                             \cup {0}
              /\ (Decoded(r)[1].seq - ack >= 32 => ack_bits' = {0})]_vars

---------------------------------------------------------------------------
(* Spec: the session as its client drives it: send, predict and reconcile   *)
(* with recv and interpolate beside them.                                   *)

Inputs == {1}
AckIds == {a \in 0..MaxSends : a % 4 = 1}
BaseSnaps == {SnapA}
SessionInputs == {NoData, Garbage, Datagram(1, 1, None)}

SessSend ==
    /\ sends < MaxSends
    /\ \E ok \in BOOLEAN : Send(ok, << >>, None)
SessRecv == \E r \in SessionInputs : Recv(r)
SessPredict == Len(cmd_queue) < MaxQueue /\ \E i \in Inputs : Predict(i)
SessReconcile == \E a \in AckIds, s \in BaseSnaps : Reconcile(a, s)
SessInterpolate == Interpolate(10)

Next == SessSend \/ SessRecv \/ SessPredict \/ SessReconcile \/ SessInterpolate

Spec == Init /\ [][Next]_vars

\* C1: the outbound counter equals the number of calls to send, whether or not
\* the datagrams were sent, and no step of another operation changes it.
C1_SeqCountsSends ==
    [](seq = sends) /\ [][op' # "send" => seq' = seq]_vars

\* C1 witness: a send that failed, after two or more earlier sends, with a
\* prediction pending and a packet processed in between.
C1_Witness ==
    /\ op = "send" /\ arg = 0 /\ sends >= 3
    /\ cmd_queue # << >> /\ delivered # {}

ExampleQueue == <<<<3, 1>>, <<4, 1>>, <<5, 1>>, <<6, 1>>>>

\* C9: reconcile(ack_id, snap) leaves exactly the entries tagged above ack_id,
\* in their order, and makes snap the baseline; tags 3,4,5,6 with ack_id 5
\* leave the entry tagged 6.
C9_ReconcilePrunes ==
    /\ [](Retain(ExampleQueue, 5) = <<<<6, 1>>>>)
    /\ [][\A a \in AckIds, s \in BaseSnaps :
            Reconcile(a, s) =>
                /\ cmd_queue' = SelectSeq(cmd_queue, LAMBDA c : c[1] > a)
                /\ last_snap' = Some(s)]_vars

\* C9 witness: reconcile(5, snap) has removed three entries and left the one
\* tagged 6.
C9_Witness ==
    /\ op = "reconcile" /\ arg = 5 /\ pruned = 3
    /\ cmd_queue = <<<<6, 1>>>> /\ last_snap = Some(SnapA)

\* C12: predict(input) adds exactly one entry, (outbound counter, input), at
\* the end of the queue, leaves the earlier entries as they were and in order,
\* and does not change the outbound counter.
C12_PredictAppends ==
    [][op' = "predict" =>
          /\ Len(cmd_queue') = Len(cmd_queue) + 1
          /\ SubSeq(cmd_queue', 1, Len(cmd_queue)) = cmd_queue
          /\ cmd_queue'[Len(cmd_queue')] = <<seq, arg'>>
          /\ seq' = seq]_vars

\* C12 witness: a predict has returned with three or more entries queued, the
\* last tagged with the current counter, the first with an earlier one.
C12_Witness ==
    /\ op = "predict" /\ Len(cmd_queue) >= 3 /\ seq >= 2
    /\ cmd_queue[Len(cmd_queue)] = <<seq, arg>>
    /\ cmd_queue[1][1] < seq

\* C13: the queue is capped: it never holds as many entries as the MaxQueue
\* calls to predict a session makes without a reconcile, so one of those calls
\* discarded instead of growing the queue.
C13_QueueCapped == Len(cmd_queue) < MaxQueue

\* C14: the packet send builds carries the outbound counter's value before the
\* increment (the k-th packet carries k - 1, one more than the packet before)
\* and the tracker's ack and ack_bits at the call; send changes neither.
C14_PacketHeader ==
    /\ [](sent # None => sent[1].seq = sends - 1)
    /\ [][op' = "send" =>
            /\ sent' # None
            /\ sent'[1].seq = seq /\ seq' = seq + 1
            /\ sent'[1].ack = ack /\ sent'[1].ack_bits = ack_bits
            /\ ack' = ack /\ ack_bits' = ack_bits
            /\ sent # None => sent'[1].seq = sent[1].seq + 1]_vars

\* C14 witness: the third or a later packet was built after a packet of the
\* peer had moved the tracker.
C14_Witness ==
    /\ op = "send" /\ sends >= 3
    /\ sent # None /\ sent[1].seq = sends - 1
    /\ sent[1].ack = 1 /\ sent[1].ack_bits = {0}

---------------------------------------------------------------------------
(* SpecBuf: the snapshot buffer fed by a server's stream: its k-th packet   *)
(* (k = 0, 1, ..) carries seq k and the state at tick k + 1.  recv is the   *)
(* only operation that writes the buffer, interpolate the only one that     *)
(* reads it.                                                                *)

ServerSnap(k) == Snap(k + 1, <<Ent(1, <<F(k), F(0), F(0)>>, RotA)>>)

BufRecv ==
    /\ Len(arrived) < MaxArrivals
    /\ \E r \in {NoData, Datagram(Len(arrived), 0,
                                   Some(ServerSnap(Len(arrived))))} : Recv(r)
BufInterpolate == \E t \in {3, SnapCap} : Interpolate(t)

NextBuf == BufRecv \/ BufInterpolate

SpecBuf == Init /\ [][NextBuf]_vars

LastN(s, n) == SubSeq(s, Len(s) - n + 1, Len(s))

\* C6: the buffer never holds more than 64 snapshots; after n snapshots were
\* ingested it holds the last min(n, 64) of them in arrival order; after 70,
\* the 64 most recent, the first six evicted.
C6_BufferBound ==
    /\ Len(snapshots) <= 64
    /\ snapshots = LastN(arrived, Min(Len(arrived), 64))
    /\ Len(arrived) = 70 =>
          (Len(snapshots) = 64 /\ snapshots = SubSeq(arrived, 7, 70))

\* C6 witness: 70 snapshots were ingested and the buffer starts at the seventh.
C6_Witness ==
    /\ Len(arrived) = 70 /\ Len(snapshots) = 64
    /\ snapshots[1] = ServerSnap(6) /\ snapshots[64] = ServerSnap(69)

---------------------------------------------------------------------------
(* SpecInterp: interpolation over buffers with ticks out of order and       *)
(* repeated, entity lists of different lengths and a non-finite position.   *)

InterpSnaps == {SnapA, SnapB, SnapC}
Targets == {9, 10, 13, 15, 20}

InterpRecv ==
    /\ Len(arrived) < MaxBuf
    /\ \E r \in {NoData} \cup {Datagram(1, 0, Some(s)) : s \in InterpSnaps} :
          Recv(r)
InterpInterpolate == \E t \in Targets : Interpolate(t)

NextInterp == InterpRecv \/ InterpInterpolate

SpecInterp == Init /\ [][NextInterp]_vars

\* the adjacent pairs of the buffer whose ticks bracket t, by index of the first
Bracketing(buf, t) ==
    {i \in 1..(Len(buf) - 1) : buf[i].tick <= t /\ t < buf[i + 1].tick}

Least(S) == CHOOSE x \in S : \A y \in S : x <= y

\* C7: interpolate(t) returns a result exactly when an adjacent pair brackets t
\* (S0.tick <= t < S1.tick), computed from the first such pair; none with
\* fewer than two snapshots or with t at or above every buffered tick.
C7_BracketSelection ==
    op = "interpolate" =>
        LET B == Bracketing(snapshots, arg)
        IN  /\ ret # None <=> B # {}
            /\ B # {} =>
                  LET s0 == snapshots[Least(B)]
                      s1 == snapshots[Least(B) + 1]
                  IN  ret = Some(ZipLerp(s0.entities, s1.entities,
                                         Fraction(s0, s1, arg)))
            /\ Len(snapshots) < 2 => ret = None
            /\ (\A i \in 1..Len(snapshots) : snapshots[i].tick <= arg)
                  => ret = None

\* C7 witness: a result was returned where two different pairs bracket the
\* target.
C7_Witness ==
    /\ op = "interpolate" /\ ret # None
    /\ \E i, j \in Bracketing(snapshots, arg) :
          /\ i < j
          /\ snapshots[i] # snapshots[j]

IsPow2(n) == n > 0 /\ n = Pow2(BitLen(n) - 1)

\* num / den is a dyadic fraction: an f32 holds it exactly (for small num, den)
Dyadic(num, den) == IsPow2(den \div GCD(num, den))

\* the integer a finite f32 with no fractional part stands for
IntVal(x) == x.m * Pow2(-x.e)

\* the finite f32 x equals the rational n / d
EqRat(x, n, d) ==
    IF x.e >= 0 THEN x.m * d = n * Pow2(x.e) ELSE x.m * Pow2(-x.e) * d = n

\* the example of the claim: ticks 10 and 20, one entity at [0,0,0] and [10,0,0]
ExampleHolds ==
    snapshots = <<SnapA, SnapB>> =>
        /\ arg = 10 => (ret # None /\ ret[1][1].pos = <<F(0), F(0), F(0)>>)
        /\ arg = 15 => (ret # None /\ ret[1][1].pos = <<F(5), F(0), F(0)>>)
        /\ arg = 20 => ret = None

\* the f32 evaluation of p0 + a * (p1 - p0), a = (t - t0) / (t1 - t0)
LerpFormula(p0, p1, t, t0, t1) ==
    FAdd(p0, FMul(FDiv(FromU32(t - t0), FromU32(t1 - t0)), FSub(p1, p0)))

\* P(o, p0, p1, s0, s1) of every axis of every paired entity of the pair
\* interpolate selected
OfEveryOutput(P(_, _, _, _, _)) ==
    (op = "interpolate" /\ ret # None) =>
        LET i == Least(Bracketing(snapshots, arg))
            s0 == snapshots[i]
            s1 == snapshots[i + 1]
        IN  \A j \in 1..Min(Len(s0.entities), Len(s1.entities)) :
                \A x \in 1..3 :
                    P(ret[1][j].pos[x], s0.entities[j].pos[x],
                      s1.entities[j].pos[x], s0, s1)

\* C8 as stated: every output position is p0 + a * (p1 - p0), and equals S0's
\* position when target_tick = S0.tick; the example holds.
C8_LerpAtBoundary ==
    /\ op = "interpolate" => ExampleHolds
    /\ OfEveryOutput(LAMBDA o, p0, p1, s0, s1 :
          /\ o = LerpFormula(p0, p1, arg, s0.tick, s1.tick)
          /\ arg = s0.tick => o = p0)

\* C8 amended: every output position is the f32 evaluation of
\* p0 + a * (p1 - p0); when both positions are finite it equals S0's position
\* at target_tick = S0.tick, and it equals the real value of the formula when
\* a is a dyadic fraction; the example holds.
C8_LerpFinite ==
    /\ op = "interpolate" => ExampleHolds
    /\ OfEveryOutput(LAMBDA o, p0, p1, s0, s1 :
          /\ o = LerpFormula(p0, p1, arg, s0.tick, s1.tick)
          /\ (IsFin(p0) /\ IsFin(p1)) =>
                /\ arg = s0.tick => o = p0
                /\ Dyadic(arg - s0.tick, s1.tick - s0.tick) =>
                      /\ IsFin(o)
                      /\ EqRat(o,
                               IntVal(p0) * (s1.tick - s0.tick)
                                 + (arg - s0.tick) * (IntVal(p1) - IntVal(p0)),
                               s1.tick - s0.tick))

\* C8 witness: interpolate(15) between ticks 10 and 20 has returned [5,0,0].
C8_Witness ==
    /\ op = "interpolate" /\ arg = 15 /\ snapshots = <<SnapA, SnapB>>
    /\ ret = Some(<<Ent(1, <<F(5), F(0), F(0)>>, RotA)>>)

\* C19: for the selected pair the output has min(|S0.entities|, |S1.entities|)
\* elements, and its i-th element carries the id and the orientation of S0's
\* i-th entity (whatever the id of S1's i-th entity); interpolate changes no
\* field of the session.
C19_OutputShape ==
    /\ []((op = "interpolate" /\ ret # None) =>
            LET i == Least(Bracketing(snapshots, arg))
                s0 == snapshots[i]
                s1 == snapshots[i + 1]
            IN  /\ Len(ret[1]) = Min(Len(s0.entities), Len(s1.entities))
                /\ \A j \in 1..Len(ret[1]) :
                      /\ ret[1][j].id = s0.entities[j].id
                      /\ ret[1][j].rot = s0.entities[j].rot)
    /\ [][op' = "interpolate" => UNCHANGED fields]_vars

\* C19 witness: a result for a pair whose entity lists differ in length and
\* whose first entities differ in id and orientation.
C19_Witness ==
    /\ op = "interpolate" /\ ret # None
    /\ LET i == Least(Bracketing(snapshots, arg))
           s0 == snapshots[i]
           s1 == snapshots[i + 1]
       IN  /\ Len(s0.entities) # Len(s1.entities)
           /\ s0.entities[1].id # s1.entities[1].id
           /\ s0.entities[1].rot # s1.entities[1].rot
           /\ ret[1][1].id = s0.entities[1].id

---------------------------------------------------------------------------
(* SpecFar: interpolation between snapshots whose ticks lie more than 2^24  *)
(* apart, where `as f32` no longer holds a tick difference exactly.         *)

\* tick 10 + 2^25 + 1
SnapFar == Snap(33554443, <<Ent(1, <<F(10), F(0), F(0)>>, RotB)>>)

FarSnaps == {SnapA, SnapFar}
FarTargets == {9, 10, 13, 16777226, 33554442, 33554443}

FarRecv ==
    /\ Len(arrived) < MaxBuf
    /\ \E r \in {NoData} \cup {Datagram(1, 0, Some(s)) : s \in FarSnaps} :
          Recv(r)
FarInterpolate == \E t \in FarTargets : Interpolate(t)

NextFar == FarRecv \/ FarInterpolate

SpecFar == Init /\ [][NextFar]_vars

\* the f32 x is at least 0 and below 1
InUnitInterval(x) ==
    /\ IsFin(x)
    /\ x.m >= 0
    /\ x.m > 0 => (x.e > 0 /\ x.m < Pow2(x.e))

\* C18: for the pair interpolate selects, S1.tick - S0.tick > 0 and
\* 0 <= target_tick - S0.tick < S1.tick - S0.tick (no subtraction underflows,
\* no division by zero), and the fraction a it computes lies in [0,1).
C18_FractionInRange ==
    (op = "interpolate" /\ ret # None) =>
        LET i == Least(Bracketing(snapshots, arg))
            s0 == snapshots[i]
            s1 == snapshots[i + 1]
        IN  /\ s1.tick - s0.tick > 0
            /\ 0 <= arg - s0.tick
            /\ arg - s0.tick < s1.tick - s0.tick
            /\ InUnitInterval(Fraction(s0, s1, arg))

---------------------------------------------------------------------------
(* SpecWire: the packets send builds, delivered intact to a recv.  The      *)
(* datagram goes to the session's own address: sender and peer run the      *)
(* same code.                                                               *)

\* a snapshot with n entities
Crowd(n) ==
    Snap(30, [i \in 1..n |-> Ent(i, <<F(0), F(0), F(0)>>, RotA)])

WireCmdSets == {<< >>, <<<<1, 1>>>>}
WireSnaps == {None, Some(SnapA), Some(Crowd(MaxEntities))}

WireSend ==
    /\ sends < MaxBuf
    /\ \E ok \in BOOLEAN, cmds \in WireCmdSets, snap \in WireSnaps :
          Send(ok, cmds, snap)
\* the datagram of a send that succeeded arrives whole
WireDeliver ==
    /\ op = "send" /\ arg = 1
    /\ Recv(Some(Bytes(sent[1])))

NextWire == WireSend \/ WireDeliver

SpecWire == Init /\ [][NextWire]_vars

\* C15: a packet assembled by send and delivered intact is returned by recv
\* with the same seq, ack, ack_bits, cmds and snap.
C15_RoundTrip ==
    [][(op = "send" /\ arg = 1 /\ Recv(Some(Bytes(sent[1])))) =>
          ret' = sent]_vars

---------------------------------------------------------------------------
(* SpecClient: the client's loop.  Each iteration calls predict, send (with *)
(* the whole queue as cmds and no snapshot), recv, reconcile when the       *)
(* packet carries a snapshot, and interpolate at tick - interp_delay, then  *)
(* advances the tick.  The position in the loop is the last call made.      *)

\* net.tick.saturating_sub(net.interp_delay)
SatSub(a, b) == IF a > b THEN a - b ELSE 0

\* what the server may have put on the wire by now: its own seq, the highest
\* client seq it has seen as ack, its state or none
ServerPackets ==
    {Datagram(s, a, snap) :
        s \in 1..2, a \in 0..(seq - 1), snap \in {None, Some(SnapA)}}

ClientPredict ==
    /\ op \in {"new", "tick"}
    /\ tick < MaxTicks
    /\ \E i \in Inputs : Predict(i)
ClientSend ==
    /\ op = "predict"
    /\ \E ok \in BOOLEAN : Send(ok, cmd_queue, None)
ClientRecv ==
    /\ op = "send"
    /\ \E r \in {NoData, Garbage} \cup ServerPackets : Recv(r)
ClientReconcile ==
    /\ op = "recv" /\ ret # None /\ ret[1].snap # None
    /\ Reconcile(ret[1].ack, ret[1].snap[1])
ClientInterpolate ==
    /\ IF op = "recv" THEN (IF ret = None THEN TRUE ELSE ret[1].snap = None)
       ELSE op = "reconcile"
    /\ Interpolate(SatSub(tick, InterpDelay))
\* net.tick += 1
ClientTick ==
    /\ op = "interpolate"
    /\ ~panicked
    /\ tick' = tick + 1
    /\ op' = "tick" /\ arg' = 0 /\ ret' = None
    /\ UNCHANGED <<seq, ack, ack_bits, snapshots, cmd_queue, last_snap>>
    /\ UNCHANGED <<env, hist>>

NextClient ==
    \/ ClientPredict \/ ClientSend \/ ClientRecv
    \/ ClientReconcile \/ ClientInterpolate \/ ClientTick

SpecClient == Init /\ [][NextClient]_vars

\* C20: in the client loop the entry predict appends is tagged with the seq of
\* the packet the send right after it transmits; tags never decrease along the
\* queue; and an entry leaves the queue only in a reconcile whose ack_id is at
\* least its tag.
C20_TagMatchesPacket ==
    /\ [](\A i, j \in 1..Len(cmd_queue) :
             i < j => cmd_queue[i][1] <= cmd_queue[j][1])
    /\ [][/\ (op = "predict" /\ op' = "send") =>
               /\ sent' # None
               /\ cmd_queue[Len(cmd_queue)][1] = sent'[1].seq
          /\ \A i \in 1..Len(cmd_queue) :
               \/ \E j \in 1..Len(cmd_queue') : cmd_queue'[j] = cmd_queue[i]
               \/ op' = "reconcile" /\ arg' >= cmd_queue[i][1]]_vars

\* C20 witness: a packet was sent under the tag of the newest entry while an
\* older entry is still pending and the entry tagged 0 has been reconciled
\* away.
C20_Witness ==
    /\ op = "send" /\ Len(cmd_queue) >= 2 /\ last_snap # None
    /\ cmd_queue[Len(cmd_queue)][1] = sent[1].seq
    /\ cmd_queue[1][1] > 0
    /\ cmd_queue[1][1] < cmd_queue[Len(cmd_queue)][1]

====
